---- MODULE Spec2Model ----
(***************************************************************************)
(* A model of inventory_system.py: the InventoryManager class, its         *)
(* in-memory stock_data, and the JSON file named file_name.                *)
(*                                                                         *)
(* Python values are tagged records.  A dict is a sequence of key/value    *)
(* entries in insertion order (Python dicts iterate in insertion order).   *)
(* The text of the file is a sequence of JSON tokens, so that json.dump    *)
(* and json.load are real conversions between values and text.             *)
(***************************************************************************)
EXTENDS Integers, Sequences, FiniteSets, TLC

\* ---------------------------------------------------------------- bounds
\* Largest quantity an add or a negative remove may reach in the model.
MaxQty == 2
\* Largest number of tokens a failed write leaves behind in the file.
MaxPartial == 2

\* ---------------------------------------------------------- Python values
PyInt(n) == [t |-> "int", n |-> n, s |-> ""]
PyStr(s) == [t |-> "str", n |-> 0, s |-> s]
\* bool is a subclass of int: True counts as 1, False as 0
PyBool(b) == [t |-> "bool", n |-> IF b THEN 1 ELSE 0, s |-> ""]
PyFloat(s) == [t |-> "float", n |-> 0, s |-> s]
PyNone == [t |-> "None", n |-> 0, s |-> ""]
PyDict(kv) == [t |-> "dict", kv |-> kv]
PyList(xs) == [t |-> "list", xs |-> xs]

\* isinstance(v, str)
IsStr(v) == v.t = "str"
\* isinstance(v, int): true of int and of bool
IsInt(v) == v.t \in {"int", "bool"}

EmptyDict == PyDict(<<>>)

\* ------------------------------------------------------------ dict access
Keys(kv) == {kv[i].k : i \in 1..Len(kv)}

IndexOf(kv, key) == CHOOSE i \in 1..Len(kv) : kv[i].k = key

\* d[key] for a key that is present
DictAt(kv, key) == kv[IndexOf(kv, key)].v

\* d.get(key, default)
DictGet(kv, key, default) ==
    IF key \in Keys(kv) THEN DictAt(kv, key) ELSE default

\* d[key] = val : in place for a key that is present, appended otherwise
DictSet(kv, key, val) ==
    IF key \in Keys(kv)
    THEN [kv EXCEPT ![IndexOf(kv, key)] = [k |-> key, v |-> val]]
    ELSE Append(kv, [k |-> key, v |-> val])

\* del d[key]
DictDel(kv, key) ==
    LET i == IndexOf(kv, key)
    IN SubSeq(kv, 1, i - 1) \o SubSeq(kv, i + 1, Len(kv))

\* ------------------------------------------------------------- JSON text
Tok(tk) == [tk |-> tk, n |-> 0, s |-> ""]
NumTok(n) == [tk |-> "num", n |-> n, s |-> ""]
StrTok(s) == [tk |-> "str", n |-> 0, s |-> s]

\* the text json.dump writes for a scalar
DumpScalar(v) == IF v.t = "str" THEN StrTok(v.s) ELSE NumTok(v.n)

RECURSIVE DumpMembers(_)
DumpMembers(kv) ==
    IF Len(kv) = 0 THEN <<>>
    ELSE LET m == <<StrTok(kv[1].k), Tok("colon"), DumpScalar(kv[1].v)>>
         IN IF Len(kv) = 1 THEN m
            ELSE m \o <<Tok("comma")>> \o DumpMembers(Tail(kv))

RECURSIVE DumpElements(_)
DumpElements(xs) ==
    IF Len(xs) = 0 THEN <<>>
    ELSE IF Len(xs) = 1 THEN <<DumpScalar(xs[1])>>
    ELSE <<DumpScalar(xs[1]), Tok("comma")>> \o DumpElements(Tail(xs))

\* json.dump(value, file, indent=4): the text written (indentation is
\* white space between tokens and is not represented)
JsonDump(v) ==
    IF v.t = "dict" THEN <<Tok("lbrace")>> \o DumpMembers(v.kv) \o <<Tok("rbrace")>>
    ELSE IF v.t = "list" THEN <<Tok("lbrack")>> \o DumpElements(v.xs) \o <<Tok("rbrack")>>
    ELSE <<DumpScalar(v)>>

\* results of json.load: a value, or JSONDecodeError
Parsed(v) == [ok |-> TRUE, val |-> v]
DecodeError == [ok |-> FALSE, val |-> PyNone]

IsScalarTok(tok) == tok.tk \in {"num", "str"}
ScalarOf(tok) == IF tok.tk = "str" THEN PyStr(tok.s) ELSE PyInt(tok.n)

\* members of an object from position i on; a repeated key keeps its first
\* position and takes its last value, as dict() of the pairs does
RECURSIVE ParseMembers(_, _, _)
ParseMembers(text, i, acc) ==
    IF i + 3 > Len(text) THEN DecodeError
    ELSE IF ~(text[i].tk = "str" /\ text[i + 1].tk = "colon" /\ IsScalarTok(text[i + 2]))
    THEN DecodeError
    ELSE LET acc2 == DictSet(acc, text[i].s, ScalarOf(text[i + 2]))
         IN IF text[i + 3].tk = "rbrace"
            THEN (IF i + 3 = Len(text) THEN Parsed(PyDict(acc2)) ELSE DecodeError)
            ELSE IF text[i + 3].tk = "comma" THEN ParseMembers(text, i + 4, acc2)
            ELSE DecodeError

RECURSIVE ParseElements(_, _, _)
ParseElements(text, i, acc) ==
    IF i + 1 > Len(text) THEN DecodeError
    ELSE IF ~IsScalarTok(text[i]) THEN DecodeError
    ELSE LET acc2 == Append(acc, ScalarOf(text[i]))
         IN IF text[i + 1].tk = "rbrack"
            THEN (IF i + 1 = Len(text) THEN Parsed(PyList(acc2)) ELSE DecodeError)
            ELSE IF text[i + 1].tk = "comma" THEN ParseElements(text, i + 2, acc2)
            ELSE DecodeError

\* json.load(file) on decoded text: any JSON value is accepted at the root,
\* not only an object.  Containers hold scalars (the flat fragment of JSON).
JsonLoad(text) ==
    IF Len(text) = 0 THEN DecodeError
    ELSE IF IsScalarTok(text[1])
    THEN (IF Len(text) = 1 THEN Parsed(ScalarOf(text[1])) ELSE DecodeError)
    ELSE IF text[1].tk = "lbrace"
    THEN (IF Len(text) = 2 /\ text[2].tk = "rbrace" THEN Parsed(EmptyDict)
          ELSE ParseMembers(text, 2, <<>>))
    ELSE IF text[1].tk = "lbrack"
    THEN (IF Len(text) = 2 /\ text[2].tk = "rbrack" THEN Parsed(PyList(<<>>))
          ELSE ParseElements(text, 2, <<>>))
    ELSE DecodeError

\* ------------------------------------------------------------ exceptions
NoExc == [exc |-> "none", msg |-> ""]
Exc(e, m) == [exc |-> e, msg |-> m]

\* a log record: level and message template
Log(level, msg) == [level |-> level, msg |-> msg]

\* what a call does: the stock it leaves, the exception it raises, the value
\* it returns and the records it logs
Outcome(stock, exc, val, logs) ==
    [stock |-> stock, raised |-> exc, ret |-> val, logged |-> logs]

\* ------------------------------------------------------------- the state
VARIABLES
    stock_data,  \* self.stock_data
    file,        \* the file named self.file_name: absent, bytes or text
    call,        \* the call made last, with its arguments
    raised,      \* the exception that call raised to its caller, if any
    ret,         \* the value that call returned
    logged       \* the log records that call emitted

vars == <<stock_data, file, call, raised, ret, logged>>

Absent == [kind |-> "absent", text |-> <<>>]
\* content that is not valid UTF-8
Bytes == [kind |-> "bytes", text |-> <<>>]
Text(text) == [kind |-> "text", text |-> text]

\* ------------------------------------------------------------- add_item
\* mutant: the quantity is checked before the item name
AddValidateQtyFirst(item, qty) ==
    IF ~IsInt(qty) THEN Exc("TypeError", "Quantity must be an integer.")
    ELSE IF qty.n <= 0 THEN Exc("ValueError", "Quantity must be greater than zero.")
    ELSE IF ~IsStr(item) THEN Exc("TypeError", "Item name must be a string.")
    ELSE NoExc

\* lines 27-32: the three checks, in order
AddValidate(item, qty) ==
    IF ~IsStr(item) THEN Exc("TypeError", "Item name must be a string.")
    ELSE IF ~IsInt(qty) THEN Exc("TypeError", "Quantity must be an integer.")
    ELSE IF qty.n <= 0 THEN Exc("ValueError", "Quantity must be greater than zero.")
    ELSE NoExc

\* mutant: the quantity is stored instead of being added to the current one
AddStockOverwrite(kv, item, qty) ==
    DictSet(kv, item.s, PyInt(qty.n))

\* lines 34-35 on a dict: stock_data[item] = stock_data.get(item, 0) + qty
AddStock(kv, item, qty) ==
    DictSet(kv, item.s, PyInt(DictGet(kv, item.s, PyInt(0)).n + qty.n))

AddItem(stock, item, qty) ==
    IF AddValidate(item, qty) # NoExc
    THEN Outcome(stock, AddValidate(item, qty), PyNone, <<>>)
    ELSE IF stock.t # "dict"
    THEN Outcome(stock, Exc("AttributeError", "no attribute 'get'"), PyNone, <<>>)
    ELSE IF ~IsInt(DictGet(stock.kv, item.s, PyInt(0)))
    THEN Outcome(stock, Exc("TypeError", "unsupported operand"), PyNone, <<>>)
    ELSE Outcome(PyDict(AddStock(stock.kv, item, qty)), NoExc, PyNone,
                 <<Log("INFO", "Added %d of %s")>>)

\* ---------------------------------------------------------- remove_item
\* mutant: remove rejects a quantity <= 0, as add does
RemoveValidatePositive(item, qty) ==
    IF ~IsStr(item) \/ ~IsInt(qty)
    THEN Exc("TypeError", "Invalid item name or quantity type.")
    ELSE IF qty.n <= 0 THEN Exc("ValueError", "Quantity must be greater than zero.")
    ELSE NoExc

\* lines 40-41
RemoveValidate(item, qty) ==
    IF ~IsStr(item) \/ ~IsInt(qty)
    THEN Exc("TypeError", "Invalid item name or quantity type.")
    ELSE NoExc

\* mutant: the key is deleted only below zero, so a quantity of 0 stays
RemoveStockStrict(kv, item, qty) ==
    LET left == DictAt(kv, item.s).n - qty.n
    IN IF left < 0 THEN DictDel(kv, item.s)
       ELSE DictSet(kv, item.s, PyInt(left))

\* lines 49-51 on a dict that holds item
RemoveStock(kv, item, qty) ==
    LET left == DictAt(kv, item.s).n - qty.n
    IN IF left <= 0 THEN DictDel(kv, item.s)
       ELSE DictSet(kv, item.s, PyInt(left))

\* line 43, item in self.stock_data: a key of a dict, an element of a list
Contains(stock, item) ==
    IF stock.t = "dict" THEN item.s \in Keys(stock.kv)
    ELSE IF stock.t = "list" THEN \E i \in 1..Len(stock.xs) : stock.xs[i] = item
    ELSE stock.t = "str" /\ stock.s = item.s  \* a substring test; names are whole strings here

RemoveItem(stock, item, qty) ==
    IF RemoveValidate(item, qty) # NoExc
    THEN Outcome(stock, RemoveValidate(item, qty), PyNone, <<>>)
    ELSE IF stock.t \notin {"dict", "list", "str"}
    THEN Outcome(stock, Exc("TypeError", "not iterable"), PyNone, <<>>)
    ELSE IF ~Contains(stock, item)
    THEN Outcome(stock, NoExc, PyNone,
                 <<Log("WARNING", "Attempted to remove non-existent item: %s")>>)
    ELSE IF stock.t # "dict"
    THEN Outcome(stock, Exc("TypeError", "indices must be integers"), PyNone, <<>>)
    ELSE IF ~IsInt(DictAt(stock.kv, item.s))
    THEN Outcome(stock, Exc("TypeError", "unsupported operand"), PyNone, <<>>)
    ELSE Outcome(PyDict(RemoveStock(stock.kv, item, qty)), NoExc, PyNone,
                 IF DictAt(stock.kv, item.s).n - qty.n <= 0
                 THEN <<Log("INFO", "Removed all of %s (now zero or negative)")>>
                 ELSE <<Log("INFO", "Removed %d of %s")>>)

\* -------------------------------------------------------------- get_qty
GetQty(stock, item) ==
    IF stock.t # "dict"
    THEN Outcome(stock, Exc("AttributeError", "no attribute 'get'"), PyNone, <<>>)
    ELSE Outcome(stock, NoExc, DictGet(stock.kv, item.s, PyInt(0)), <<>>)

\* ------------------------------------------------------ check_low_items
DefaultThreshold == 5

\* mutant: qty <= threshold
RECURSIVE LowItemsInclusive(_, _)
LowItemsInclusive(kv, threshold) ==
    IF Len(kv) = 0 THEN <<>>
    ELSE (IF kv[1].v.n <= threshold THEN <<PyStr(kv[1].k)>> ELSE <<>>)
         \o LowItemsInclusive(Tail(kv), threshold)

\* the list comprehension of lines 102-105 over the entries in order
RECURSIVE LowItems(_, _)
LowItems(kv, threshold) ==
    IF Len(kv) = 0 THEN <<>>
    ELSE (IF kv[1].v.n < threshold THEN <<PyStr(kv[1].k)>> ELSE <<>>)
         \o LowItems(Tail(kv), threshold)

CheckLowItems(stock, threshold) ==
    IF stock.t # "dict"
    THEN Outcome(stock, Exc("AttributeError", "no attribute 'items'"), PyNone, <<>>)
    ELSE IF \A i \in 1..Len(stock.kv) : IsInt(stock.kv[i].v)
    THEN Outcome(stock, NoExc, PyList(LowItems(stock.kv, threshold)), <<>>)
    ELSE Outcome(stock, Exc("TypeError", "'<' not supported"), PyNone, <<>>)

\* ------------------------------------------------------------ load_data
\* lines 65-83.  io is what the file system does when an existing file is
\* opened: "ok", or "denied" for a file the process may not read.
\* Only FileNotFoundError and JSONDecodeError are caught; the assignment of
\* line 67 happens only when json.load returns.
LoadData(stock, f, io) ==
    IF f.kind = "absent"
    THEN Outcome(EmptyDict, NoExc, PyNone,
                 <<Log("WARNING", "File %s not found, starting with empty data.")>>)
    ELSE IF io = "denied"
    THEN Outcome(stock, Exc("PermissionError", "open"), PyNone, <<>>)
    ELSE IF f.kind = "bytes"
    THEN Outcome(stock, Exc("UnicodeDecodeError", "read"), PyNone, <<>>)
    ELSE IF JsonLoad(f.text).ok
    THEN Outcome(JsonLoad(f.text).val, NoExc, PyNone,
                 <<Log("INFO", "Data loaded successfully from %s")>>)
    ELSE Outcome(EmptyDict, NoExc, PyNone,
                 <<Log("ERROR", "Invalid JSON format in %s.")>>)

\* ------------------------------------------------------------ save_data
Min(a, b) == IF a < b THEN a ELSE b

\* mutant: the file is opened for appending, not truncated
SaveFileAppend(stock, f, io, n) ==
    IF io = "denied" THEN f
    ELSE IF io = "short"
    THEN Text(f.text \o SubSeq(JsonDump(stock), 1, Min(n, Len(JsonDump(stock)))))
    ELSE Text(f.text \o JsonDump(stock))

\* the file after lines 87-88.  io is "ok", "denied" (open fails, nothing is
\* touched) or "short" (the file was truncated by open and the write failed
\* after n tokens)
SaveFile(stock, f, io, n) ==
    IF io = "denied" THEN f
    ELSE IF io = "short" THEN Text(SubSeq(JsonDump(stock), 1, Min(n, Len(JsonDump(stock)))))
    ELSE Text(JsonDump(stock))

\* mutant: OSError is caught and logged, as load_data does with its errors
SaveDataSwallow(stock, io) ==
    IF io # "ok"
    THEN Outcome(stock, NoExc, PyNone, <<Log("ERROR", "Could not save data to %s")>>)
    ELSE Outcome(stock, NoExc, PyNone, <<Log("INFO", "Data saved successfully to %s")>>)

\* lines 85-92: nothing is caught; the record is logged after the with block
SaveData(stock, io) ==
    IF io = "denied" THEN Outcome(stock, Exc("PermissionError", "open"), PyNone, <<>>)
    ELSE IF io = "short" THEN Outcome(stock, Exc("OSError", "write"), PyNone, <<>>)
    ELSE Outcome(stock, NoExc, PyNone, <<Log("INFO", "Data saved successfully to %s")>>)

\* ---------------------------------------------------------------- inputs
ItemNames == {"apple", "banana"}
\* item arguments: names, and a value that is not text
Items == {PyStr(s) : s \in ItemNames} \cup {PyInt(42)}
\* qty arguments: integers of every sign, True, and a value that is no integer
Qtys == {PyInt(n) : n \in -1..MaxQty} \cup {PyBool(TRUE), PyFloat("1.5")}
Thresholds == (0..(MaxQty + 1)) \cup {DefaultThreshold}

\* what the file may hold before the program first runs
InitialFiles ==
    { Absent,
      Bytes,
      Text(<<Tok("junk")>>),
      Text(<<Tok("lbrack"), StrTok("apple"), Tok("comma"), NumTok(1), Tok("rbrack")>>),
      Text(JsonDump(PyDict(<<[k |-> "apple", v |-> PyInt(0)],
                             [k |-> "banana", v |-> PyInt(-1)]>>))),
      Text(JsonDump(PyDict(<<[k |-> "apple", v |-> PyStr("many")]>>))),
      Text(<<Tok("lbrace"), StrTok("apple"), Tok("colon"), NumTok(1), Tok("comma"),
             StrTok("apple"), Tok("colon"), NumTok(2), Tok("rbrace")>>) }

\* ------------------------------------------------------------------ steps
\* the state after a call with outcome o
Return(c, o) ==
    /\ call' = c
    /\ stock_data' = o.stock
    /\ raised' = o.raised
    /\ ret' = o.ret
    /\ logged' = o.logged

\* the model keeps integer quantities within -1..MaxQty
Bounded(stock) ==
    stock.t = "dict" =>
        \A i \in 1..Len(stock.kv) : IsInt(stock.kv[i].v) => stock.kv[i].v.n <= MaxQty

Call(op, item, qty, io) == [op |-> op, item |-> item, qty |-> qty, io |-> io]

\* InventoryManager(): lines 16-23
Init ==
    /\ stock_data = EmptyDict
    /\ file \in InitialFiles
    /\ call = Call("__init__", PyNone, PyNone, "")
    /\ raised = NoExc
    /\ ret = PyNone
    /\ logged = <<>>

\* a new InventoryManager on the same file_name
construct ==
    /\ Return(Call("__init__", PyNone, PyNone, ""), Outcome(EmptyDict, NoExc, PyNone, <<>>))
    /\ UNCHANGED file

add_item ==
    \E item \in Items, qty \in Qtys :
        /\ Bounded(AddItem(stock_data, item, qty).stock)
        /\ Return(Call("add_item", item, qty, ""), AddItem(stock_data, item, qty))
        /\ UNCHANGED file

remove_item ==
    \E item \in Items, qty \in Qtys :
        /\ Bounded(RemoveItem(stock_data, item, qty).stock)
        /\ Return(Call("remove_item", item, qty, ""), RemoveItem(stock_data, item, qty))
        /\ UNCHANGED file

get_qty ==
    \E item \in {PyStr(s) : s \in ItemNames} :
        /\ Return(Call("get_qty", item, PyNone, ""), GetQty(stock_data, item))
        /\ UNCHANGED file

check_low_items ==
    \E threshold \in Thresholds :
        /\ Return(Call("check_low_items", PyNone, PyInt(threshold), ""),
                  CheckLowItems(stock_data, threshold))
        /\ UNCHANGED file

load_data ==
    \E io \in {"ok", "denied"} :
        /\ io = "denied" => file.kind # "absent"
        /\ Return(Call("load_data", PyNone, PyNone, io), LoadData(stock_data, file, io))
        /\ UNCHANGED file

\* lines 110-111: a fresh InventoryManager on the same file_name, then load_data
fresh_load_data ==
    \E io \in {"ok", "denied"} :
        /\ io = "denied" => file.kind # "absent"
        /\ Return(Call("fresh_load_data", PyNone, PyNone, io), LoadData(EmptyDict, file, io))
        /\ UNCHANGED file

save_data ==
    \E io \in {"ok", "denied", "short"}, n \in 0..MaxPartial :
        /\ io # "short" => n = 0
        /\ Return(Call("save_data", PyNone, PyInt(n), io), SaveData(stock_data, io))
        /\ file' = SaveFile(stock_data, file, io, n)

Next ==
    \/ construct
    \/ add_item
    \/ remove_item
    \/ get_qty
    \/ check_low_items
    \/ load_data
    \/ fresh_load_data
    \/ save_data

Spec == Init /\ [][Next]_vars

\* ========================================================== properties
\* a stock as the data model describes it: a mapping from names to integers
IntDict(stock) ==
    stock.t = "dict" /\ \A i \in 1..Len(stock.kv) : stock.kv[i].v.t = "int"

\* a stock in which every quantity is strictly positive: exactly the stocks
\* that add and remove calls build from the empty one
PositiveDict(stock) ==
    IntDict(stock) /\ \A i \in 1..Len(stock.kv) : stock.kv[i].v.n > 0

\* two dicts hold the same keys with the same values
SameMapping(a, b) ==
    /\ Keys(a.kv) = Keys(b.kv)
    /\ \A key \in Keys(a.kv) : DictAt(a.kv, key) = DictAt(b.kv, key)

\* quantity of a name as get_qty reports it
Quantity(stock, name) == GetQty(stock, PyStr(name)).ret

IsLoad(c) == c.op \in {"load_data", "fresh_load_data"}

\* C1: in every reachable state every quantity stored in the stock is
\* strictly positive (no key is present with a quantity <= 0).
C1_QuantitiesPositive ==
    stock_data.t = "dict" =>
        \A i \in 1..Len(stock_data.kv) :
            stock_data.kv[i].v.t = "int" => stock_data.kv[i].v.n > 0

\* C2: a load on a fresh store right after a successful save of a stock built
\* by add/remove calls yields the mapping that was in memory at save time.
C2_SaveLoadRoundTrip ==
    [][(/\ call.op = "save_data"
        /\ raised = NoExc
        /\ PositiveDict(stock_data)
        /\ call'.op = "fresh_load_data"
        /\ call'.io = "ok")
       => (/\ raised' = NoExc
           /\ stock_data'.t = "dict"
           /\ SameMapping(stock_data', stock_data))]_vars

C2_Witness ==
    /\ call.op = "fresh_load_data"
    /\ raised = NoExc
    /\ PositiveDict(stock_data)
    /\ Len(stock_data.kv) = 2
    /\ file = Text(JsonDump(stock_data))

\* C3 as stated: for a text item that is not a key and any qty whatsoever,
\* integer or not, remove leaves the stock unchanged and raises nothing.
C3_RemoveAbsentAnyQty ==
    [][(/\ call'.op = "remove_item"
        /\ IsStr(call'.item)
        /\ stock_data.t = "dict"
        /\ call'.item.s \notin Keys(stock_data.kv))
       => (stock_data' = stock_data /\ raised' = NoExc)]_vars

\* C3 amended: for a text item that is not a key, remove leaves the stock
\* unchanged; it raises nothing when qty is an integer of any sign and the
\* TypeError of the type check when qty is not an integer.
C3_RemoveAbsent ==
    [][(/\ call'.op = "remove_item"
        /\ IsStr(call'.item)
        /\ stock_data.t = "dict"
        /\ call'.item.s \notin Keys(stock_data.kv))
       => (/\ stock_data' = stock_data
           /\ IsInt(call'.qty) => raised' = NoExc
           /\ ~IsInt(call'.qty) => raised'.exc = "TypeError")]_vars

C3_Witness ==
    /\ call.op = "remove_item"
    /\ IsStr(call.item)
    /\ call.qty = PyInt(-1)
    /\ PositiveDict(stock_data)
    /\ Len(stock_data.kv) = 1
    /\ call.item.s \notin Keys(stock_data.kv)
    /\ raised = NoExc
    /\ logged = <<Log("WARNING", "Attempted to remove non-existent item: %s")>>

\* C4: removing an integer qty of any sign from an item present with quantity
\* q deletes the key when q - qty <= 0 and otherwise sets it to q - qty; no
\* other item changes.
C4_RemovePresent ==
    [][(/\ call'.op = "remove_item"
        /\ IsStr(call'.item)
        /\ IsInt(call'.qty)
        /\ IntDict(stock_data)
        /\ call'.item.s \in Keys(stock_data.kv))
       => LET name == call'.item.s
              left == DictAt(stock_data.kv, name).n - call'.qty.n
          IN /\ raised' = NoExc
             /\ stock_data'.t = "dict"
             /\ left <= 0 => name \notin Keys(stock_data'.kv)
             /\ left > 0 => /\ name \in Keys(stock_data'.kv)
                            /\ DictAt(stock_data'.kv, name) = PyInt(left)
             /\ Keys(stock_data'.kv) \ {name} = Keys(stock_data.kv) \ {name}
             /\ \A other \in Keys(stock_data.kv) \ {name} :
                    DictAt(stock_data'.kv, other) = DictAt(stock_data.kv, other)]_vars

C4_Witness ==
    /\ call.op = "remove_item"
    /\ call.qty = PyInt(-1)
    /\ raised = NoExc
    /\ IntDict(stock_data)
    /\ Len(stock_data.kv) = 2
    /\ IsStr(call.item)
    /\ call.item.s \in Keys(stock_data.kv)
    /\ DictAt(stock_data.kv, call.item.s) = PyInt(2)

\* C5: a valid add raises get_quantity(item) by exactly qty, an absent item
\* counting as 0, and changes the quantity of no other item.
C5_AddIncreases ==
    [][(/\ call'.op = "add_item"
        /\ IsStr(call'.item)
        /\ IsInt(call'.qty)
        /\ call'.qty.n > 0
        /\ IntDict(stock_data))
       => LET name == call'.item.s
          IN /\ raised' = NoExc
             /\ Quantity(stock_data', name) =
                    PyInt(Quantity(stock_data, name).n + call'.qty.n)
             /\ \A other \in (ItemNames \cup Keys(stock_data.kv)
                                        \cup Keys(stock_data'.kv)) \ {name} :
                    Quantity(stock_data', other) = Quantity(stock_data, other)]_vars

C5_Witness ==
    /\ call.op = "add_item"
    /\ raised = NoExc
    /\ IsStr(call.item)
    /\ call.qty = PyInt(1)
    /\ IntDict(stock_data)
    /\ Len(stock_data.kv) = 2
    /\ Quantity(stock_data, call.item.s) = PyInt(2)

\* C6: an invalid add leaves the stock unchanged and fails with the error of
\* the first failing check: item not text, then qty not an integer, then
\* qty <= 0.
C6_AddValidationOrder ==
    [][(/\ call'.op = "add_item"
        /\ (~IsStr(call'.item) \/ ~IsInt(call'.qty) \/ call'.qty.n <= 0))
       => (/\ stock_data' = stock_data
           /\ ~IsStr(call'.item) =>
                  raised' = Exc("TypeError", "Item name must be a string.")
           /\ (IsStr(call'.item) /\ ~IsInt(call'.qty)) =>
                  raised' = Exc("TypeError", "Quantity must be an integer.")
           /\ (IsStr(call'.item) /\ IsInt(call'.qty) /\ call'.qty.n <= 0) =>
                  raised' = Exc("ValueError", "Quantity must be greater than zero."))]_vars

C6_Witness ==
    /\ call.op = "add_item"
    /\ call.item = PyInt(42)
    /\ call.qty = PyInt(-1)
    /\ raised = Exc("TypeError", "Item name must be a string.")
    /\ PositiveDict(stock_data)
    /\ Len(stock_data.kv) = 2

\* C7: a load that finds the file absent, or finds text that does not hold a
\* JSON object, leaves the stock equal to the empty mapping and raises nothing.
C7_LoadFailureGivesEmpty ==
    (/\ IsLoad(call)
     /\ call.io = "ok"
     /\ \/ file.kind = "absent"
        \/ /\ file.kind = "text"
           /\ ~(JsonLoad(file.text).ok /\ JsonLoad(file.text).val.t = "dict"))
    => (stock_data = EmptyDict /\ raised = NoExc)

\* C8: load never raises, whatever the file is (absent, unreadable,
\* undecodable, not JSON, valid JSON), and leaves a stock that add, remove
\* and the queries can use.
C8_LoadNeverRaises ==
    IsLoad(call) => (raised = NoExc /\ IntDict(stock_data))

\* the names in xs are exactly the keys of kv whose quantity is below
\* threshold, each once, in the order of kv
ExactlyLow(xs, kv, threshold) ==
    /\ \A i \in 1..Len(xs) : IsStr(xs[i]) /\ xs[i].s \in Keys(kv)
    /\ \A i \in 1..Len(kv) :
           (kv[i].v.n < threshold) <=> (\E j \in 1..Len(xs) : xs[j].s = kv[i].k)
    /\ \A i, j \in 1..Len(xs) :
           i < j => IndexOf(kv, xs[i].s) < IndexOf(kv, xs[j].s)

\* C9: check_low_items returns exactly the items whose quantity is strictly
\* below the threshold, in stock order, and leaves the stock unchanged; an
\* empty stock gives the empty list.
C9_LowItemsExact ==
    [][(call'.op = "check_low_items" /\ IntDict(stock_data))
       => (/\ stock_data' = stock_data
           /\ raised' = NoExc
           /\ ret'.t = "list"
           /\ ExactlyLow(ret'.xs, stock_data.kv, call'.qty.n)
           /\ stock_data = EmptyDict => ret'.xs = <<>>)]_vars

C9_Witness ==
    /\ call.op = "check_low_items"
    /\ raised = NoExc
    /\ PositiveDict(stock_data)
    /\ Len(stock_data.kv) = 2
    /\ stock_data.kv[1].v.n = call.qty.n
    /\ ret = PyList(<<PyStr(stock_data.kv[2].k)>>)

\* C10: save never changes the stock; a failed open or write reaches the
\* caller as an exception; the success record is logged only when the whole
\* text was written.
C10_SaveFrame ==
    [][(call'.op = "save_data")
       => (/\ stock_data' = stock_data
           /\ call'.io # "ok" => (raised' # NoExc /\ logged' = <<>>)
           /\ call'.io = "ok" => raised' = NoExc
           /\ logged' # <<>> =>
                  (/\ logged' = <<Log("INFO", "Data saved successfully to %s")>>
                   /\ file' = Text(JsonDump(stock_data))))]_vars

C10_Witness ==
    /\ call.op = "save_data"
    /\ call.io = "short"
    /\ raised = Exc("OSError", "write")
    /\ logged = <<>>
    /\ PositiveDict(stock_data)
    /\ Len(stock_data.kv) = 2
    /\ file.kind = "text"
    /\ file.text # JsonDump(stock_data)

====
